---- MODULE Spec2Model ----
(***************************************************************************)
(* The atomic content store of src/src/web_context_extract.py             *)
(* (class AtomicFileManager): atomic_write, atomic_append, read_with_lock  *)
(* and _create_backup, modelled at the granularity of the file-system      *)
(* calls the Python code makes (open, flock, stat, copy, glob, unlink,     *)
(* write, rename, close).  The store is a module-level singleton used by   *)
(* the API server's coroutines and by pipeline subprocesses, and its       *)
(* docstring promises thread safety, so callers are modelled as            *)
(* independently scheduled processes.  The locking branch modelled is the  *)
(* fcntl.flock one (HAS_FCNTL): a lock belongs to an open file description *)
(* of the inode that the lock-file path named when it was opened.          *)
(***************************************************************************)
EXTENDS Integers, Sequences, FiniteSets, TLC

\* ------------------------------------------------------------- bounds
\* seconds the wall clock advances at most
MaxTime == 1
\* injected I/O faults per behaviour at most
MaxFaults == 1

\* calls one caller makes one after the other
SeqCalls == 15
\* seconds the wall clock advances at most while one caller works alone
MaxSeqTime == 15

\* ------------------------------------------------ program constants
\* range(5): retries after the first failed lock attempt
MaxRetries == 5
\* 0.1 s, the first retry delay, in milliseconds
BaseDelayMs == 100
\* "Keep only last 10 backups"
KeepBackups == 10

\* ------------------------------------------------------- value sets
Procs == {"p1", "p2", "p3"}
Files == {"context.json", "context_old.json"}
MainFile == "context.json"

\* A content is a sequence of characters (small integers).  Absent stands
\* for "no such file" / None; it is no content.
Absent == <<-1>>
NoIno == <<>>
OldContent == <<0, 0>>
\* what json.dump([], f) writes
EmptyJson == <<9>>
Payload == [p1 |-> <<1, 1>>, p2 |-> <<2, 2>>, p3 |-> <<3, 3>>]

VARIABLES
  file,       \* file[f]: content of base_path/f, or Absent
  lockPath,   \* lockPath[f]: inode the path .locks/f.lock names, or NoIno
  bk,         \* bk[<<f, ts>>]: content of .backups/<stem(f)>_<ts><suffix(f)>
  now,        \* the wall clock, in seconds (time.strftime resolution)
  faults,     \* I/O faults injected so far
  warned,     \* TRUE once "Could not acquire lock ..." has been printed
  submitted,  \* submitted[f]: contents handed to atomic_write(f, .) so far
  proc,       \* proc[p]: the local variables and position of caller p
  job_store,  \* main.py job_store: job id -> job record
  task,       \* task[j]: the background task of job j and its position
  process_status,  \* web_ui_react.py process_status
  request,    \* request[r]: the handler of POST /api/run serving request r
  thread,     \* thread[r]: the run_process thread started for request r
  enabled,    \* Cache.enabled
  hash_seed,  \* hash_seed[k]: hash(k) % HashMod in the running interpreter
  memory_cache,  \* Cache.memory_cache: key -> entry
  cache_dir,  \* cache_dir[h]: the entry in ./cache/<h>.json, or NoEntry
  clock,      \* time.time()
  recent,     \* recent[k]: the entry last set for k and not deleted since
  called      \* the last call on the cache and what it returned

\* the state of the content store and the state of the API server
store == <<file, lockPath, bk, now, faults, warned, submitted, proc>>
jobs == <<job_store, task>>
webui == <<process_status, request, thread>>
cachev == <<enabled, hash_seed, memory_cache, cache_dir, clock, recent, called>>
server == <<jobs, webui, cachev>>

vars == <<store, server>>

\* ------------------------------------------------------------ helpers
Stem(f) == IF f = "context.json" THEN <<"context">> ELSE <<"context", "old">>

IsPrefix(s, t) == Len(s) <= Len(t) /\ SubSeq(t, 1, Len(s)) = s

\* glob(f"{stem}_*{suffix}") of file f matches the backup name of file g
GlobMatches(f, name) == IsPrefix(Stem(f), Stem(name[1]))

\* order of sorted() on backup paths: same file by timestamp; a longer stem
\* continues with a letter where the shorter one has the timestamp's digit
NameLess(a, b) ==
  IF a[1] = b[1] THEN a[2] < b[2] ELSE Len(Stem(a[1])) < Len(Stem(b[1]))

\* the first name of sorted(S)
First(S) == CHOOSE x \in S : \A y \in S : x = y \/ NameLess(x, y)

\* the names of sorted(S)[:-k]: those with at least k names after them
AllButLast(S, k) == {n \in S : Cardinality({m \in S : NameLess(n, m)}) >= k}

BackupsOf(f) == {n \in DOMAIN bk : GlobMatches(f, n)}
OwnBackups(f) == {n \in DOMAIN bk : n[1] = f}

\* the flock on inode i is held by an open file description other than p's
LockedByOther(p, i) == \E q \in Procs \ {p} : proc[q].fd = i /\ proc[q].has

\* local variables of a call that has not started
NoCall ==
  [pc |-> "idle", op |-> "none", fn |-> MainFile, content |-> Absent,
   appended |-> Absent, existing |-> Absent, calls |-> 0, fd |-> NoIno,
   has |-> FALSE, attempt |-> 0, tries |-> 0, waited |-> 0, bkp |-> Absent,
   plist |-> {}, tmp |-> Absent, committed |-> FALSE, res |-> "none",
   cause |-> "none", ret |-> Absent, how |-> "none", pre |-> Absent,
   overlap |-> FALSE]

Busy(q) == proc[q].pc # "idle"

NewCall(p, o, f, at) ==
  [NoCall EXCEPT !.pc = at, !.op = o, !.fn = f,
                 !.calls = proc[p].calls + 1, !.pre = file[f],
                 !.overlap = \E q \in Procs \ {p} : Busy(q)]

\* caller p enters a call with the locals r; the calls in progress are from
\* now on calls that ran while another one did
Enter(p, r) ==
  [q \in Procs |->
     IF q = p THEN r
     ELSE IF Busy(q) THEN [proc[q] EXCEPT !.overlap = TRUE] ELSE proc[q]]

Returned(p) == proc[p].pc = "idle" /\ proc[p].calls > 0

\* what the caller is left with when the call returns: the locals that only
\* the call itself used are gone
Return(r) ==
  [r EXCEPT !.pc = "idle", !.fd = NoIno, !.has = FALSE, !.attempt = 0,
            !.tries = 0, !.waited = 0, !.bkp = Absent, !.plist = {}]

\* the piece of a content that has reached a file when a write is cut short
Torn(c) == SubSeq(c, 1, Len(c) \div 2)

\* ----------------------------------------------------------- Init
JobIds == {"j1", "j2"}

\* no background task: the job id has not been handed out
NoTask == [kind |-> "none", pc |-> "none", opt |-> FALSE]

\* the requests POST /api/run that arrive; request r starts thread r
Reqs == {"r1", "r2"}

\* process_status as the module and reset_status build it (logs left out)
FreshStatus ==
  [running |-> FALSE, current_step |-> "", progress |-> 0,
   error |-> "None", completed |-> FALSE]

NoRequest == [pc |-> "none", components |-> 0, res |-> "none"]

NoThread ==
  [pc |-> "none", components |-> 0, current_step |-> 0, completed |-> 0,
   lines |-> 0, stderr |-> "none", returncode |-> "none", path |-> "none"]

InitWebUI ==
  /\ process_status = FreshStatus
  /\ request = [r \in Reqs |-> NoRequest]
  /\ thread = [r \in Reqs |-> NoThread]

\* the keys the callers use, and the number of file names hashed_key has
Keys == {"k1", "k2"}

HashMod == 2

Buckets == 0 .. (HashMod - 1)

\* an entry {'value': ..., 'expires': ...}; the value is the pair of the key
\* and the number it was set with, so that its origin can be told
NoEntry == [key |-> "none", n |-> 0, expires |-> 0]

\* turn alternates from call to call; run counts the interpreters
NoCacheCall ==
  [op |-> "none", key |-> "none", value |-> NoEntry, turn |-> 0, run |-> 0]

\* cache = Cache(): an empty memory_cache; what ./cache holds and what hash()
\* yields in this interpreter are fixed by the specification of the cache
InitMemory ==
  /\ memory_cache = [k \in Keys |-> NoEntry]
  /\ clock = 0
  /\ recent = [k \in Keys |-> NoEntry]
  /\ called = NoCacheCall

InitCache ==
  /\ enabled = TRUE
  /\ hash_seed = [k \in Keys |-> IF k = "k1" THEN 0 ELSE 1]
  /\ cache_dir = [h \in Buckets |-> NoEntry]
  /\ InitMemory

\* job_store = {} at import (main.py line 81)
InitJobs ==
  /\ job_store = <<>>
  /\ task = [j \in JobIds |-> NoTask]

InitServer ==
  /\ InitJobs
  /\ InitWebUI
  /\ InitCache

InitBackups(n) ==
  [name \in {<<MainFile, t>> : t \in 1..n} |-> OldContent]

\* a fresh content root, or one in use whose target has a full backup history
\* (snapshots of the seconds 1..10); the clock stands at second 11
InitStore ==
  /\ \E used \in BOOLEAN :
       /\ file = [f \in Files |-> IF used /\ f = MainFile THEN OldContent ELSE Absent]
       /\ bk = InitBackups(IF used THEN KeepBackups ELSE 0)
       /\ submitted = [f \in Files |->
                         IF used /\ f = MainFile THEN {OldContent} ELSE {}]
  /\ now = KeepBackups + 1
  /\ lockPath = [f \in Files |-> NoIno]
  /\ faults = 0
  /\ warned = FALSE
  /\ proc = [p \in Procs |-> NoCall]

Init ==
  /\ InitStore
  /\ InitServer

\* the clock advances; only _create_backup reads it, so the seconds that
\* matter are those that pass before a timestamp is taken
Tick ==
  /\ now < KeepBackups + 1 + MaxTime
  /\ \E p \in Procs : proc[p].pc = "b_copy"
  /\ now' = now + 1
  /\ UNCHANGED <<file, lockPath, bk, faults, warned, submitted, proc, server>>

\* ------------------------------------------------------ atomic_write
\* the call itself: file_path, lock_file, temp_file = None
atomic_write(p, f, lim) ==
  /\ proc[p].pc = "idle"
  /\ proc[p].calls < lim
  /\ proc' = Enter(p, [NewCall(p, "write", f, "w_open") EXCEPT
                          !.content = Payload[p]])
  /\ submitted' = [submitted EXCEPT ![f] = @ \cup {Payload[p]}]
  /\ UNCHANGED <<file, lockPath, bk, now, faults, warned, server>>

\* open(lock_file, "w"): creates the lock file when the path names none
atomic_write_open(p) ==
  /\ proc[p].pc = "w_open"
  /\ LET f == proc[p].fn
         ino == IF lockPath[f] = NoIno THEN <<p, proc[p].calls>> ELSE lockPath[f]
     IN /\ lockPath' = [lockPath EXCEPT ![f] = ino]
        /\ proc' = [proc EXCEPT ![p].pc = "w_lock", ![p].fd = ino]
  /\ UNCHANGED <<file, bk, now, faults, warned, submitted, server>>

\* the first self._acquire_lock(lock): flock(LOCK_EX | LOCK_NB)
atomic_write_acquire(p) ==
  /\ proc[p].pc = "w_lock"
  /\ proc' = [proc EXCEPT
       ![p].tries = @ + 1,
       ![p].has = ~LockedByOther(p, proc[p].fd),
       ![p].pc = IF LockedByOther(p, proc[p].fd) THEN "w_sleep" ELSE "b_exists"]
  /\ UNCHANGED <<file, lockPath, bk, now, faults, warned, submitted, server>>

\* mutant: a constant delay of 0.1 s
sleep_constant(p) ==
  /\ proc[p].pc = "w_sleep"
  /\ proc' = [proc EXCEPT ![p].waited = @ + BaseDelayMs, ![p].pc = "w_retry"]
  /\ UNCHANGED <<file, lockPath, bk, now, faults, warned, submitted, server>>

\* mutant: a linear backoff, 0.1 * (attempt + 1)
sleep_linear(p) ==
  /\ proc[p].pc = "w_sleep"
  /\ proc' = [proc EXCEPT
       ![p].waited = @ + BaseDelayMs * (proc[p].attempt + 1),
       ![p].pc = "w_retry"]
  /\ UNCHANGED <<file, lockPath, bk, now, faults, warned, submitted, server>>

\* await asyncio.sleep(0.1 * (2 ** attempt))
atomic_write_sleep(p) ==
  /\ proc[p].pc = "w_sleep"
  /\ proc' = [proc EXCEPT
       ![p].waited = @ + BaseDelayMs * (2 ^ proc[p].attempt),
       ![p].pc = "w_retry"]
  /\ UNCHANGED <<file, lockPath, bk, now, faults, warned, submitted, server>>

\* mutant: one retry more, "for attempt in range(6)"
retry_once_more(p) ==
  /\ proc[p].pc = "w_retry"
  /\ LET busy == LockedByOther(p, proc[p].fd)
         last == proc[p].attempt + 1 = MaxRetries + 1
     IN /\ proc' = [proc EXCEPT
             ![p].tries = @ + 1,
             ![p].has = ~busy,
             ![p].attempt = IF busy /\ ~last THEN @ + 1 ELSE @,
             ![p].pc = IF busy /\ ~last THEN "w_sleep" ELSE "b_exists"]
        /\ warned' = (warned \/ (busy /\ last))
  /\ UNCHANGED <<file, lockPath, bk, now, faults, submitted, server>>

\* mutant: a writer that cannot get the lock raises instead of going on
retry_exhausted_raises(p) ==
  /\ proc[p].pc = "w_retry"
  /\ LET busy == LockedByOther(p, proc[p].fd)
         last == proc[p].attempt + 1 = MaxRetries
     IN /\ proc' = [proc EXCEPT
             ![p].tries = @ + 1,
             ![p].has = ~busy,
             ![p].attempt = IF busy /\ ~last THEN @ + 1 ELSE @,
             ![p].cause = IF busy /\ last THEN "w_retry" ELSE @,
             ![p].pc = IF busy /\ ~last THEN "w_sleep"
                       ELSE IF busy THEN "x_except" ELSE "b_exists"]
        /\ warned' = (warned \/ (busy /\ last))
  /\ UNCHANGED <<file, lockPath, bk, now, faults, submitted, server>>

\* self._acquire_lock(lock) inside the for loop: break, continue, or the
\* for-else that prints the warning and goes on without the lock
atomic_write_retry(p) ==
  /\ proc[p].pc = "w_retry"
  /\ LET busy == LockedByOther(p, proc[p].fd)
         last == proc[p].attempt + 1 = MaxRetries
     IN /\ proc' = [proc EXCEPT
             ![p].tries = @ + 1,
             ![p].has = ~busy,
             ![p].attempt = IF busy /\ ~last THEN @ + 1 ELSE @,
             ![p].pc = IF busy /\ ~last THEN "w_sleep" ELSE "b_exists"]
        /\ warned' = (warned \/ (busy /\ last))
  /\ UNCHANGED <<file, lockPath, bk, now, faults, submitted, server>>

\* _create_backup: if not file_path.exists(): return None.  The loop's
\* locals are dead from here on.
create_backup_exists(p) ==
  /\ proc[p].pc = "b_exists"
  /\ proc' = [proc EXCEPT
       ![p].attempt = 0, ![p].tries = 0, ![p].waited = 0,
       ![p].pc = IF file[proc[p].fn] = Absent THEN "t_create" ELSE "b_copy"]
  /\ UNCHANGED <<file, lockPath, bk, now, faults, warned, submitted, server>>

\* mutant: the snapshot is named but never copied
backup_copy_skipped(p) ==
  /\ proc[p].pc = "b_copy"
  /\ proc' = [proc EXCEPT ![p].pc = "b_glob", ![p].bkp = <<proc[p].fn, now>>]
  /\ UNCHANGED <<file, lockPath, bk, now, faults, warned, submitted, server>>

\* timestamp = time.strftime(...); shutil.copy2(file_path, backup_path)
create_backup_copy(p) ==
  /\ proc[p].pc = "b_copy"
  /\ LET f == proc[p].fn
     IN IF file[f] = Absent
        THEN /\ proc' = [proc EXCEPT ![p].pc = "x_except", ![p].cause = "b_copy"]
             /\ bk' = bk
        ELSE /\ bk' = (<<f, now>> :> file[f]) @@ bk
             /\ proc' = [proc EXCEPT ![p].pc = "b_glob", ![p].bkp = <<f, now>>]
  /\ UNCHANGED <<file, lockPath, now, faults, warned, submitted, server>>

\* backups = sorted(glob(...)); if len(backups) > 10: ... backups[:-10]
create_backup_glob(p) ==
  /\ proc[p].pc = "b_glob"
  /\ LET old == AllButLast(BackupsOf(proc[p].fn), KeepBackups)
     IN proc' = [proc EXCEPT
          ![p].plist = old,
          ![p].pc = IF old = {} THEN "t_create" ELSE "b_unlink"]
  /\ UNCHANGED <<file, lockPath, bk, now, faults, warned, submitted, server>>

\* old_backup.unlink() for the next old_backup of the loop, in sorted order
create_backup_unlink(p) ==
  /\ proc[p].pc = "b_unlink"
  /\ LET name == First(proc[p].plist)
         rest == proc[p].plist \ {name}
     IN IF name \in DOMAIN bk
        THEN /\ bk' = [n \in DOMAIN bk \ {name} |-> bk[n]]
             /\ proc' = [proc EXCEPT
                  ![p].plist = rest,
                  ![p].pc = IF rest = {} THEN "t_create" ELSE "b_unlink"]
        ELSE /\ bk' = bk
             /\ proc' = [proc EXCEPT ![p].pc = "x_except", ![p].cause = "b_unlink"]
  /\ UNCHANGED <<file, lockPath, now, faults, warned, submitted, server>>

\* tempfile.NamedTemporaryFile(dir=file_path.parent, delete=False, ...);
\* temp_file = Path(temp.name)
atomic_write_temp_create(p) ==
  /\ proc[p].pc = "t_create"
  /\ proc' = [proc EXCEPT ![p].tmp = <<>>, ![p].pc = "t_write"]
  /\ UNCHANGED <<file, lockPath, bk, now, faults, warned, submitted, server>>

\* mutant: the content is written into the target itself, piece by piece
temp_write_in_place(p) ==
  /\ proc[p].pc = "t_write"
  /\ file' = [file EXCEPT ![proc[p].fn] = Torn(proc[p].content)]
  /\ proc' = [proc EXCEPT ![p].tmp = proc[p].content, ![p].pc = "t_move"]
  /\ UNCHANGED <<lockPath, bk, now, faults, warned, submitted, server>>

\* mutant: no flush, only a part of the content is in the file at the rename
temp_write_unflushed(p) ==
  /\ proc[p].pc = "t_write"
  /\ proc' = [proc EXCEPT ![p].tmp = Torn(proc[p].content), ![p].pc = "t_move"]
  /\ UNCHANGED <<file, lockPath, bk, now, faults, warned, submitted, server>>

\* temp.write(content); temp.flush(); os.fsync(temp.fileno())
atomic_write_temp_write(p) ==
  /\ proc[p].pc = "t_write"
  /\ proc' = [proc EXCEPT ![p].tmp = proc[p].content, ![p].pc = "t_move"]
  /\ UNCHANGED <<file, lockPath, bk, now, faults, warned, submitted, server>>

\* what read_with_lock returns for a file content
Text(c) == IF c = Absent THEN <<>> ELSE c

\* mutant: an append is applied to the target as it is at the rename
move_appends_in_place(p) ==
  /\ proc[p].pc = "t_move"
  /\ LET f == proc[p].fn
         new == IF proc[p].op = "append"
                THEN Text(file[f]) \o proc[p].appended ELSE proc[p].tmp
     IN /\ file' = [file EXCEPT ![f] = new]
        /\ submitted' = [submitted EXCEPT ![f] = @ \cup {new}]
  /\ proc' = [proc EXCEPT ![p].tmp = Absent, ![p].committed = TRUE,
                          ![p].pc = "w_close"]
  /\ UNCHANGED <<lockPath, bk, now, faults, warned, server>>

\* shutil.move(str(temp_file), str(file_path)): a rename within one directory
atomic_write_move(p) ==
  /\ proc[p].pc = "t_move"
  /\ file' = [file EXCEPT ![proc[p].fn] = proc[p].tmp]
  /\ proc' = [proc EXCEPT ![p].tmp = Absent, ![p].committed = TRUE,
                          ![p].pc = "w_close"]
  /\ UNCHANGED <<lockPath, bk, now, faults, warned, submitted, server>>

\* leaving "with open(lock_file, "w") as lock": the descriptor is closed,
\* which drops the flock it holds
atomic_write_close_lock(p) ==
  /\ proc[p].pc = "w_close"
  /\ proc' = [proc EXCEPT ![p].fd = NoIno, ![p].has = FALSE,
                          ![p].res = "ok", ![p].pc = "f_exists"]
  /\ UNCHANGED <<file, lockPath, bk, now, faults, warned, submitted, server>>

\* an I/O error (disk full, permission denied, ...) raised by the open of
\* the lock file, the backup copy, a backup unlink, the creation or the
\* write of the temporary file (which is left partly written), or the rename
atomic_write_raise(p) ==
  /\ proc[p].pc \in {"w_open", "b_copy", "b_unlink", "t_create", "t_write", "t_move"}
  /\ faults < MaxFaults
  /\ faults' = faults + 1
  /\ proc' = [proc EXCEPT
       ![p].pc = "x_except", ![p].cause = proc[p].pc,
       ![p].tmp = IF proc[p].pc = "t_write" THEN Torn(proc[p].content) ELSE @]
  /\ UNCHANGED <<file, lockPath, bk, now, warned, submitted, server>>

\* mutant: the handler forgets the temporary file
except_keeps_temp(p) ==
  /\ proc[p].pc = "x_except"
  /\ proc' = [proc EXCEPT ![p].fd = NoIno, ![p].has = FALSE,
                          ![p].res = "err", ![p].pc = "f_exists"]
  /\ UNCHANGED <<file, lockPath, bk, now, faults, warned, submitted, server>>

\* mutant: the handler swallows the error ("except Exception: pass")
except_swallows(p) ==
  /\ proc[p].pc = "x_except"
  /\ proc' = [proc EXCEPT ![p].fd = NoIno, ![p].has = FALSE,
                          ![p].tmp = Absent, ![p].res = "ok",
                          ![p].pc = "f_exists"]
  /\ UNCHANGED <<file, lockPath, bk, now, faults, warned, submitted, server>>

\* the with block is left (closing the lock descriptor), then
\* except Exception: unlink temp_file if it exists; raise Exception(...)
atomic_write_except(p) ==
  /\ proc[p].pc = "x_except"
  /\ proc' = [proc EXCEPT ![p].fd = NoIno, ![p].has = FALSE,
                          ![p].tmp = Absent, ![p].res = "err",
                          ![p].pc = "f_exists"]
  /\ UNCHANGED <<file, lockPath, bk, now, faults, warned, submitted, server>>

\* mutant: no finally block, the lock file stays
finally_keeps_marker(p) ==
  /\ proc[p].pc = "f_exists"
  /\ proc' = [proc EXCEPT ![p] = Return(@)]
  /\ UNCHANGED <<file, lockPath, bk, now, faults, warned, submitted, server>>

\* finally: if lock_file.exists()
atomic_write_finally_exists(p) ==
  /\ proc[p].pc = "f_exists"
  /\ proc' = [proc EXCEPT
       ![p] = IF lockPath[proc[p].fn] = NoIno
              THEN Return(@) ELSE [@ EXCEPT !.pc = "f_unlink"]]
  /\ UNCHANGED <<file, lockPath, bk, now, faults, warned, submitted, server>>

\* finally: lock_file.unlink(); FileNotFoundError when the path is gone
atomic_write_finally_unlink(p) ==
  /\ proc[p].pc = "f_unlink"
  /\ LET f == proc[p].fn
     IN IF lockPath[f] = NoIno
        THEN /\ lockPath' = lockPath
             /\ proc' = [proc EXCEPT
                  ![p] = Return([@ EXCEPT
                           !.res = "err",
                           !.cause = IF @ = "none" THEN "f_unlink" ELSE @])]
        ELSE /\ lockPath' = [lockPath EXCEPT ![f] = NoIno]
             /\ proc' = [proc EXCEPT ![p] = Return(@)]
  /\ UNCHANGED <<file, bk, now, faults, warned, submitted, server>>

\* ----------------------------------------------------- atomic_append
\* the call itself: file_path; existing_content = ""
atomic_append(p, f, lim) ==
  /\ proc[p].pc = "idle"
  /\ proc[p].calls < lim
  /\ proc' = Enter(p, [NewCall(p, "append", f, "a_exists") EXCEPT
                          !.appended = Payload[p], !.existing = <<>>])
  /\ UNCHANGED <<file, lockPath, bk, now, faults, warned, submitted, server>>

\* combined_content = existing_content + content;
\* await self.atomic_write(filename, combined_content, ...)
Delegate(r, f) == [r EXCEPT !.content = r.existing \o r.appended, !.pc = "w_open"]

\* if file_path.exists(): an absent file leaves existing_content empty
atomic_append_exists(p) ==
  /\ proc[p].pc = "a_exists"
  /\ LET f == proc[p].fn
     IN IF file[f] = Absent
        THEN /\ proc' = [proc EXCEPT ![p] = Delegate(@, f)]
             /\ submitted' = [submitted EXCEPT ![f] = @ \cup {proc[p].appended}]
        ELSE /\ proc' = [proc EXCEPT ![p].pc = "a_read"]
             /\ submitted' = submitted
  /\ UNCHANGED <<file, lockPath, bk, now, faults, warned, server>>

\* mutant: the existing content is dropped, the new content replaces it
append_read_overwrites(p) ==
  /\ proc[p].pc = "a_read"
  /\ proc' = [proc EXCEPT ![p] = Delegate(@, proc[p].fn)]
  /\ submitted' = [submitted EXCEPT ![proc[p].fn] = @ \cup {proc[p].appended}]
  /\ UNCHANGED <<file, lockPath, bk, now, faults, warned, server>>

\* with open(file_path, "r") as f: existing_content = f.read()
atomic_append_read(p) ==
  /\ proc[p].pc = "a_read"
  /\ LET f == proc[p].fn
     IN IF file[f] = Absent
        THEN /\ proc' = [proc EXCEPT
                  ![p] = Return([@ EXCEPT !.res = "err", !.cause = "a_read"])]
             /\ submitted' = submitted
        ELSE /\ proc' = [proc EXCEPT
                  ![p] = Delegate([@ EXCEPT !.existing = file[f]], f)]
             /\ submitted' = [submitted EXCEPT
                  ![f] = @ \cup {file[f] \o proc[p].appended}]
  /\ UNCHANGED <<file, lockPath, bk, now, faults, warned, server>>

\* an I/O error while reading the existing content: atomic_append has no
\* handler, the error reaches the caller
atomic_append_raise(p) ==
  /\ proc[p].pc = "a_read"
  /\ faults < MaxFaults
  /\ faults' = faults + 1
  /\ proc' = [proc EXCEPT
       ![p] = Return([@ EXCEPT !.res = "err", !.cause = "a_read"])]
  /\ UNCHANGED <<file, lockPath, bk, now, warned, submitted, server>>

\* ---------------------------------------------------- read_with_lock
\* the call itself: file_path
read_with_lock(p, f, lim) ==
  /\ proc[p].pc = "idle"
  /\ proc[p].calls < lim
  /\ proc' = Enter(p, NewCall(p, "read", f, "r_exists"))
  /\ UNCHANGED <<file, lockPath, bk, now, faults, warned, submitted, server>>

\* mutant: no existence check and no handler, the open of an absent file raises
read_exists_raises(p) ==
  /\ proc[p].pc = "r_exists"
  /\ proc' = [proc EXCEPT ![p] =
       IF file[proc[p].fn] = Absent
       THEN Return([@ EXCEPT !.res = "err", !.cause = "r_read"])
       ELSE [@ EXCEPT !.pc = "r_read"]]
  /\ UNCHANGED <<file, lockPath, bk, now, faults, warned, submitted, server>>

\* if not file_path.exists(): return ""
read_with_lock_exists(p) ==
  /\ proc[p].pc = "r_exists"
  /\ proc' = [proc EXCEPT ![p] =
       IF file[proc[p].fn] = Absent
       THEN Return([@ EXCEPT !.ret = <<>>, !.how = "absent", !.res = "ok"])
       ELSE [@ EXCEPT !.pc = "r_read"]]
  /\ UNCHANGED <<file, lockPath, bk, now, faults, warned, submitted, server>>

\* with open(file_path, "r") as f: return f.read(); a file that has gone
\* since the check raises FileNotFoundError into the handler
read_with_lock_read(p) ==
  /\ proc[p].pc = "r_read"
  /\ proc' = [proc EXCEPT ![p] =
       IF file[proc[p].fn] = Absent
       THEN Return([@ EXCEPT !.ret = <<>>, !.how = "except", !.res = "ok"])
       ELSE Return([@ EXCEPT !.ret = file[proc[p].fn], !.how = "read",
                             !.res = "ok"])]
  /\ UNCHANGED <<file, lockPath, bk, now, faults, warned, submitted, server>>

\* mutant: the handler re-raises
read_except_raises(p) ==
  /\ proc[p].pc = "r_read"
  /\ faults < MaxFaults
  /\ faults' = faults + 1
  /\ proc' = [proc EXCEPT ![p] =
       Return([@ EXCEPT !.how = "except", !.res = "err", !.cause = "r_read"])]
  /\ UNCHANGED <<file, lockPath, bk, now, warned, submitted, server>>

\* except Exception as e: print a warning; return "" (an I/O error raised by
\* the open or the read)
read_with_lock_except(p) ==
  /\ proc[p].pc = "r_read"
  /\ faults < MaxFaults
  /\ faults' = faults + 1
  /\ proc' = [proc EXCEPT ![p] =
       Return([@ EXCEPT !.ret = <<>>, !.how = "except", !.res = "ok"])]
  /\ UNCHANGED <<file, lockPath, bk, now, warned, submitted, server>>

\* --------------------------------------- callers outside the store
\* POST /api/context/clear, the part on context.json
clear_context(p, lim) ==
  /\ proc[p].pc = "idle"
  /\ proc[p].calls < lim
  /\ proc' = Enter(p, NewCall(p, "clear", MainFile, "c_exists"))
  /\ UNCHANGED <<file, lockPath, bk, now, faults, warned, submitted, server>>

\* if context_json_path.exists()
clear_context_exists(p) ==
  /\ proc[p].pc = "c_exists"
  /\ proc' = [proc EXCEPT ![p] =
       IF file[proc[p].fn] = Absent
       THEN Return([@ EXCEPT !.res = "ok"]) ELSE [@ EXCEPT !.pc = "c_open"]]
  /\ UNCHANGED <<file, lockPath, bk, now, faults, warned, submitted, server>>

\* open(context_json_path, "w"): the file is truncated (or created) in place
clear_context_open(p) ==
  /\ proc[p].pc = "c_open"
  /\ file' = [file EXCEPT ![proc[p].fn] = <<>>]
  /\ proc' = [proc EXCEPT ![p].pc = "c_dump"]
  /\ UNCHANGED <<lockPath, bk, now, faults, warned, submitted, server>>

\* json.dump([], f) and the close of the file
clear_context_dump(p) ==
  /\ proc[p].pc = "c_dump"
  /\ file' = [file EXCEPT ![proc[p].fn] = EmptyJson]
  /\ proc' = [proc EXCEPT ![p] = Return([@ EXCEPT !.res = "ok"])]
  /\ UNCHANGED <<lockPath, bk, now, faults, warned, submitted, server>>

\* extract(), once the crawl has returned its results
extract(p, lim) ==
  /\ proc[p].pc = "idle"
  /\ proc[p].calls < lim
  /\ proc' = Enter(p, [NewCall(p, "extract", MainFile, "e_open") EXCEPT
                          !.content = Payload[p]])
  /\ UNCHANGED <<file, lockPath, bk, now, faults, warned, submitted, server>>

\* with open("./data/context.json", "w") as file: truncated or created
extract_open(p) ==
  /\ proc[p].pc = "e_open"
  /\ file' = [file EXCEPT ![proc[p].fn] = <<>>]
  /\ proc' = [proc EXCEPT ![p].pc = "e_dump"]
  /\ UNCHANGED <<lockPath, bk, now, faults, warned, submitted, server>>

\* json.dump(output_data, file, indent=2) and the close of the file
extract_dump(p) ==
  /\ proc[p].pc = "e_dump"
  /\ file' = [file EXCEPT ![proc[p].fn] = proc[p].content]
  /\ proc' = [proc EXCEPT ![p] = Return([@ EXCEPT !.res = "ok"])]
  /\ UNCHANGED <<lockPath, bk, now, faults, warned, submitted, server>>

OutsideStep(p) ==
  \/ clear_context_exists(p)
  \/ clear_context_open(p)
  \/ clear_context_dump(p)
  \/ extract_open(p)
  \/ extract_dump(p)

\* ------------------------------------------------ job_store (main.py)
\* a job record; message and the two timestamps are left out
JobRecord(st, pr, res, err) ==
  [status |-> st, progress |-> pr, result |-> res, error |-> err]

\* the record every endpoint stores for a new job
PendingJob == JobRecord("pending", 0, "None", "None")

\* update_job_status: if job_id in job_store: job_store[job_id].update(...)
update_job_status(j, st, pr, res, err) ==
  job_store' = IF j \in DOMAIN job_store
               THEN [job_store EXCEPT ![j] = JobRecord(st, pr, res, err)]
               ELSE job_store

\* job_id = str(uuid.uuid4()); job_store[job_id] = {... "pending" ...}
CreateJob(j) ==
  /\ j \notin DOMAIN job_store
  /\ job_store' = (j :> PendingJob) @@ job_store

\* background_tasks.add_task(...)
AddTask(j, kind, opt) ==
  task' = [task EXCEPT ![j] = [kind |-> kind, pc |-> "start", opt |-> opt]]

\* POST /api/search: the task is web_extract(query), which has no job id
search_web_content(j) ==
  /\ CreateJob(j)
  /\ AddTask(j, "search", FALSE)
  /\ UNCHANGED <<store, webui, cachev>>

\* POST /api/generate: process_article_generation(job_id, ..., skip_search)
generate_article_endpoint(j, skip_search) ==
  /\ CreateJob(j)
  /\ AddTask(j, "generate", skip_search)
  /\ UNCHANGED <<store, webui, cachev>>

\* POST /api/extract/urls: process_url_extraction(job_id, ..., save_to_sources)
extract_from_urls(j, save_to_sources) ==
  /\ CreateJob(j)
  /\ AddTask(j, "extract_urls", save_to_sources)
  /\ UNCHANGED <<store, webui, cachev>>

\* POST /api/generate/from-urls: process_article_generation_from_urls(job_id, ...)
generate_article_from_urls(j) ==
  /\ CreateJob(j)
  /\ AddTask(j, "generate_from_urls", FALSE)
  /\ UNCHANGED <<store, webui, cachev>>

At(j, kinds, pc) == task[j].kind \in kinds /\ task[j].pc = pc

Goto(j, pc) == task' = [task EXCEPT ![j].pc = pc]

\* the task of a search job: web_extract runs and returns or raises; nothing
\* in it knows the job
search_task(j) ==
  /\ At(j, {"search"}, "start")
  /\ Goto(j, "done")
  /\ UNCHANGED <<store, job_store, webui, cachev>>

\* process_article_generation up to its first call
process_article_generation_begin(j) ==
  /\ At(j, {"generate"}, "start")
  /\ IF task[j].opt
     THEN /\ update_job_status(j, "processing", 60, "None", "None")
          /\ Goto(j, "summarize")
     ELSE /\ update_job_status(j, "processing", 20, "None", "None")
          /\ Goto(j, "web_extract")
  /\ UNCHANGED <<store, webui, cachev>>

\* await web_extract(query) returns, or raises
process_article_generation_extract(j, ok) ==
  /\ At(j, {"generate"}, "web_extract")
  /\ IF ok
     THEN /\ update_job_status(j, "processing", 40, "None", "None")
          /\ Goto(j, "summ_begin")
     ELSE /\ UNCHANGED job_store
          /\ Goto(j, "except")
  /\ UNCHANGED <<store, webui, cachev>>

\* process_url_extraction / process_article_generation_from_urls: first update
process_urls_begin(j) ==
  /\ task[j].kind \in {"extract_urls", "generate_from_urls"}
  /\ task[j].pc = "start"
  /\ update_job_status(j, "processing",
                       IF task[j].kind = "extract_urls" THEN 10 ELSE 5,
                       "None", "None")
  /\ Goto(j, "validate")
  /\ UNCHANGED <<store, webui, cachev>>

\* the URL validation loop; if not valid_urls: raise
process_urls_validate(j, valid) ==
  /\ task[j].kind \in {"extract_urls", "generate_from_urls"}
  /\ task[j].pc = "validate"
  /\ IF valid
     THEN /\ update_job_status(j, "processing",
                               IF task[j].kind = "extract_urls" THEN 30 ELSE 20,
                               "None", "None")
          /\ Goto(j, "simple_extract")
     ELSE /\ UNCHANGED job_store
          /\ Goto(j, "except")
  /\ UNCHANGED <<store, webui, cachev>>

\* await simple_extract(valid_urls, query) returns (for from-urls: with at
\* least one successful extraction), or the task raises
process_urls_extract(j, ok) ==
  /\ task[j].kind \in {"extract_urls", "generate_from_urls"}
  /\ task[j].pc = "simple_extract"
  /\ IF ok
     THEN IF task[j].kind = "extract_urls"
          THEN /\ update_job_status(j, "processing", 70, "None", "None")
               /\ Goto(j, "after_extract")
          ELSE /\ update_job_status(j, "processing", 40, "None", "None")
               /\ Goto(j, "summ_begin")
     ELSE /\ UNCHANGED job_store
          /\ Goto(j, "except")
  /\ UNCHANGED <<store, webui, cachev>>

\* process_url_extraction: if save_to_sources: update(80); else the final update
process_url_extraction_after(j) ==
  /\ At(j, {"extract_urls"}, "after_extract")
  /\ IF task[j].opt
     THEN /\ update_job_status(j, "processing", 80, "None", "None")
          /\ Goto(j, "update_sources")
     ELSE /\ update_job_status(j, "completed", 100, "set", "None")
          /\ Goto(j, "done")
  /\ UNCHANGED <<store, webui, cachev>>

\* await update_sources_file(query, valid_urls) returns or raises
process_url_extraction_sources(j, ok) ==
  /\ At(j, {"extract_urls"}, "update_sources")
  /\ IF ok
     THEN /\ update_job_status(j, "completed", 100, "set", "None")
          /\ Goto(j, "done")
     ELSE /\ UNCHANGED job_store
          /\ Goto(j, "except")
  /\ UNCHANGED <<store, webui, cachev>>

\* update(60) before summarize_context()
process_summarize_begin(j) ==
  /\ At(j, {"generate", "generate_from_urls"}, "summ_begin")
  /\ update_job_status(j, "processing", 60, "None", "None")
  /\ Goto(j, "summarize")
  /\ UNCHANGED <<store, webui, cachev>>

\* summarize_context() returns 0, or returns something else, or raises
process_summarize(j, ok) ==
  /\ At(j, {"generate", "generate_from_urls"}, "summarize")
  /\ IF ok
     THEN /\ update_job_status(j, "processing", 80, "None", "None")
          /\ Goto(j, "gen_begin")
     ELSE /\ UNCHANGED job_store
          /\ Goto(j, "except")
  /\ UNCHANGED <<store, webui, cachev>>

\* update(90) before generate_article(...)
process_generate_begin(j) ==
  /\ At(j, {"generate", "generate_from_urls"}, "gen_begin")
  /\ update_job_status(j, "processing", 90, "None", "None")
  /\ Goto(j, "generate")
  /\ UNCHANGED <<store, webui, cachev>>

\* mutant: something raises after the final update, inside the try block
generate_then_raises(j, ok) ==
  /\ At(j, {"generate", "generate_from_urls"}, "generate")
  /\ IF ok
     THEN /\ update_job_status(j, "completed", 100, "set", "None")
          /\ Goto(j, "except")
     ELSE /\ UNCHANGED job_store
          /\ Goto(j, "except")
  /\ UNCHANGED <<store, webui, cachev>>

\* generate_article(...) returns 0, or returns something else, or raises
process_generate(j, ok) ==
  /\ At(j, {"generate", "generate_from_urls"}, "generate")
  /\ IF ok
     THEN /\ update_job_status(j, "completed", 100, "set", "None")
          /\ Goto(j, "done")
     ELSE /\ UNCHANGED job_store
          /\ Goto(j, "except")
  /\ UNCHANGED <<store, webui, cachev>>

\* mutant: the handler leaves the progress where it was
except_keeps_progress(j) ==
  /\ At(j, {"generate", "generate_from_urls", "extract_urls"}, "except")
  /\ update_job_status(j, "failed", job_store[j].progress, "None", "set")
  /\ Goto(j, "done")
  /\ UNCHANGED <<store, webui, cachev>>

\* except Exception as e: update_job_status(job_id, "failed", ..., 0, error=str(e))
process_except(j) ==
  /\ At(j, {"generate", "generate_from_urls", "extract_urls"}, "except")
  /\ update_job_status(j, "failed", 0, "None", "set")
  /\ Goto(j, "done")
  /\ UNCHANGED <<store, webui, cachev>>

TaskStep(j) ==
  \/ process_article_generation_begin(j)
  \/ \E ok \in BOOLEAN : process_article_generation_extract(j, ok)
  \/ process_urls_begin(j)
  \/ \E valid \in BOOLEAN : process_urls_validate(j, valid)
  \/ \E ok \in BOOLEAN : process_urls_extract(j, ok)
  \/ process_url_extraction_after(j)
  \/ \E ok \in BOOLEAN : process_url_extraction_sources(j, ok)
  \/ process_summarize_begin(j)
  \/ \E ok \in BOOLEAN : process_summarize(j, ok)
  \/ process_generate_begin(j)
  \/ \E ok \in BOOLEAN : process_generate(j, ok)
  \/ process_except(j)

\* ------------------------------------------------------ specifications
WriteStep(p) ==
  \/ atomic_write_open(p)
  \/ atomic_write_acquire(p)
  \/ atomic_write_sleep(p)
  \/ atomic_write_retry(p)
  \/ create_backup_exists(p)
  \/ create_backup_copy(p)
  \/ create_backup_glob(p)
  \/ create_backup_unlink(p)
  \/ atomic_write_temp_create(p)
  \/ atomic_write_temp_write(p)
  \/ atomic_write_move(p)
  \/ atomic_write_close_lock(p)
  \/ atomic_write_raise(p)
  \/ atomic_write_except(p)
  \/ atomic_write_finally_exists(p)
  \/ atomic_write_finally_unlink(p)

AppendStep(p) ==
  \/ atomic_append_exists(p)
  \/ atomic_append_read(p)
  \/ atomic_append_raise(p)

ReadStep(p) ==
  \/ read_with_lock_exists(p)
  \/ read_with_lock_read(p)
  \/ read_with_lock_except(p)

Step(p) == WriteStep(p) \/ AppendStep(p) \/ ReadStep(p)

\* two callers on independent threads or processes, each making one call of
\* any operation, all on one filename
Next ==
  \/ Tick
  \/ \E p \in {"p1", "p2"} :
       \/ atomic_write(p, MainFile, 1)
       \/ atomic_append(p, MainFile, 1)
       \/ read_with_lock(p, MainFile, 1)
       \/ Step(p)

Spec == Init /\ [][Next]_vars

InitUsed == Init /\ file[MainFile] # Absent

\* two writers of one filename in a content root in use, where the thread of
\* caller p1 keeps being scheduled (its sleeps end, its system calls
\* return); nothing is assumed of the other writer, which may stall anywhere,
\* also while it holds the lock
NextLive ==
  \E p \in {"p1", "p2"} : atomic_write(p, MainFile, 1) \/ WriteStep(p)

SpecLive == InitUsed /\ [][NextLive]_vars /\ WF_vars(WriteStep("p1"))

\* three writers of one filename in a content root in use, the clock
\* standing still

NextWriters ==
  \E p \in Procs : atomic_write(p, MainFile, 1) \/ WriteStep(p)

SpecWriters == InitUsed /\ [][NextWriters]_vars

\* one caller making its calls one after the other, nobody else using the
\* store: the lock file is created and removed by each call, so the lock is
\* always free and the retry loop is never entered
\* the clock advances before a timestamp is taken; whether it does matters
\* only when the present second already names a snapshot
TickSeq ==
  /\ now < KeepBackups + 1 + MaxSeqTime
  /\ proc["p1"].pc = "b_copy"
  /\ <<proc["p1"].fn, now>> \in DOMAIN bk
  /\ now' = now + 1
  /\ UNCHANGED <<file, lockPath, bk, faults, warned, submitted, proc, server>>

WriteAloneStep(p) ==
  \/ atomic_write_open(p)
  \/ atomic_write_acquire(p)
  \/ create_backup_exists(p)
  \/ create_backup_copy(p)
  \/ create_backup_glob(p)
  \/ create_backup_unlink(p)
  \/ atomic_write_temp_create(p)
  \/ atomic_write_temp_write(p)
  \/ atomic_write_move(p)
  \/ atomic_write_close_lock(p)
  \/ atomic_write_raise(p)
  \/ atomic_write_except(p)
  \/ atomic_write_finally_exists(p)
  \/ atomic_write_finally_unlink(p)

NextSeq ==
  \/ TickSeq
  \/ atomic_write("p1", MainFile, SeqCalls)
  \/ WriteAloneStep("p1")

SpecSeq == Init /\ [][NextSeq]_vars

\* the API server and a pipeline run at work on context.json: caller p1
\* saves through the store (save_context_data) while caller p2 clears the
\* context or saves a crawl result
NextProgram ==
  \/ atomic_write("p1", MainFile, 1)
  \/ WriteAloneStep("p1")
  \/ clear_context("p2", 1)
  \/ extract("p2", 1)
  \/ OutsideStep("p2")

SpecProgram == Init /\ [][NextProgram]_vars

\* two writers, each on either filename, in a content root where both files
\* exist and context_old.json has a full backup history of its own
OtherFile == "context_old.json"

InitFiles ==
  /\ file = [f \in Files |-> OldContent]
  /\ bk = [name \in {<<OtherFile, t>> : t \in 1..KeepBackups} |-> OldContent]
  /\ submitted = [f \in Files |-> {OldContent}]
  /\ now = KeepBackups + 1
  /\ lockPath = [f \in Files |-> NoIno]
  /\ faults = 0
  /\ warned = FALSE
  /\ proc = [p \in Procs |-> NoCall]
  /\ InitServer

NextFiles ==
  \E p \in {"p1", "p2"} :
    \/ \E f \in Files : atomic_write(p, f, 1)
    \/ WriteStep(p)

SpecFiles == InitFiles /\ [][NextFiles]_vars

\* the callers as coroutines of one asyncio event loop.  A coroutine runs
\* until it awaits something that suspends it; in the store that is only
\* "await asyncio.sleep(...)" of the retry loop ("await self.atomic_write(...)"
\* in atomic_append runs the callee at once).  Between calls and in a sleep
\* a coroutine is suspended.
Suspended(q) == proc[q].pc \in {"idle", "w_retry"}

\* mutant: every file operation is awaited, any coroutine may run at any time
turn_any_time(p) == TRUE

\* the loop runs p: every other coroutine is suspended
LoopTurn(p) == \A q \in Procs \ {p} : Suspended(q)

\* no process but the loop's uses the store, so a coroutine finds the lock
\* free at its first attempt and never sleeps
\* each step of a coroutine is taken when the loop runs it
loop_call_atomic_write(p) == LoopTurn(p) /\ atomic_write(p, MainFile, 1)

loop_call_atomic_append(p) == LoopTurn(p) /\ atomic_append(p, MainFile, 1)

loop_call_read_with_lock(p) == LoopTurn(p) /\ read_with_lock(p, MainFile, 1)

loop_atomic_write_open(p) == LoopTurn(p) /\ atomic_write_open(p)

loop_atomic_write_acquire(p) == LoopTurn(p) /\ atomic_write_acquire(p)

loop_create_backup_exists(p) == LoopTurn(p) /\ create_backup_exists(p)

loop_create_backup_copy(p) == LoopTurn(p) /\ create_backup_copy(p)

loop_create_backup_glob(p) == LoopTurn(p) /\ create_backup_glob(p)

loop_create_backup_unlink(p) == LoopTurn(p) /\ create_backup_unlink(p)

loop_atomic_write_temp_create(p) == LoopTurn(p) /\ atomic_write_temp_create(p)

loop_atomic_write_temp_write(p) == LoopTurn(p) /\ atomic_write_temp_write(p)

loop_atomic_write_move(p) == LoopTurn(p) /\ atomic_write_move(p)

loop_atomic_write_close_lock(p) == LoopTurn(p) /\ atomic_write_close_lock(p)

loop_atomic_write_raise(p) == LoopTurn(p) /\ atomic_write_raise(p)

loop_atomic_write_except(p) == LoopTurn(p) /\ atomic_write_except(p)

loop_atomic_write_finally_exists(p) == LoopTurn(p) /\ atomic_write_finally_exists(p)

loop_atomic_write_finally_unlink(p) == LoopTurn(p) /\ atomic_write_finally_unlink(p)

loop_atomic_append_exists(p) == LoopTurn(p) /\ atomic_append_exists(p)

loop_atomic_append_read(p) == LoopTurn(p) /\ atomic_append_read(p)

loop_atomic_append_raise(p) == LoopTurn(p) /\ atomic_append_raise(p)

loop_read_with_lock_exists(p) == LoopTurn(p) /\ read_with_lock_exists(p)

loop_read_with_lock_read(p) == LoopTurn(p) /\ read_with_lock_read(p)

loop_read_with_lock_except(p) == LoopTurn(p) /\ read_with_lock_except(p)

NextLoop ==
  \E p \in {"p1", "p2"} :
    \/ loop_call_atomic_write(p)
    \/ loop_call_atomic_append(p)
    \/ loop_call_read_with_lock(p)
    \/ loop_atomic_write_open(p)
    \/ loop_atomic_write_acquire(p)
    \/ loop_create_backup_exists(p)
    \/ loop_create_backup_copy(p)
    \/ loop_create_backup_glob(p)
    \/ loop_create_backup_unlink(p)
    \/ loop_atomic_write_temp_create(p)
    \/ loop_atomic_write_temp_write(p)
    \/ loop_atomic_write_move(p)
    \/ loop_atomic_write_close_lock(p)
    \/ loop_atomic_write_raise(p)
    \/ loop_atomic_write_except(p)
    \/ loop_atomic_write_finally_exists(p)
    \/ loop_atomic_write_finally_unlink(p)
    \/ loop_atomic_append_exists(p)
    \/ loop_atomic_append_read(p)
    \/ loop_atomic_append_raise(p)
    \/ loop_read_with_lock_exists(p)
    \/ loop_read_with_lock_read(p)
    \/ loop_read_with_lock_except(p)

SpecLoop == Init /\ [][NextLoop]_vars

\* the API server's jobs: requests create jobs, the event loop runs their
\* background tasks
NextJobs ==
  \E j \in JobIds :
    \/ search_web_content(j)
    \/ \E skip_search \in BOOLEAN : generate_article_endpoint(j, skip_search)
    \/ \E save_to_sources \in BOOLEAN : extract_from_urls(j, save_to_sources)
    \/ generate_article_from_urls(j)
    \/ search_task(j)
    \/ TaskStep(j)

SpecJobs == Init /\ [][NextJobs]_vars

\* ------------------------------------------------------- the web UI
\* at most three components can be selected; the bound keeps to two
MaxComponents == 2

\* lines of the subprocess's output read by one run_process
MaxLines == 1

\* the percentages a progress bar prints
Percents == {50, 100}

\* update_status(step, progress, log, error, completed=False): a None
\* argument is "None" (step, error) or -1 (progress); completed is always
\* assigned
update_status(ps, step, progress, error, completed) ==
  [ps EXCEPT !.current_step = IF step # "None" THEN step ELSE @,
             !.progress = IF progress # -1 THEN progress ELSE @,
             !.error = IF error # "None" THEN error ELSE @,
             !.completed = completed]

\* int(5 + (current_step - 1) * progress_per_step
\*        + percent * progress_per_step / 100), progress_per_step = 90 / n
Progress(n, current_step, percent) ==
  (500 * n + (current_step - 1) * 9000 + percent * 90) \div (100 * n)

Active(r) == thread[r].pc \notin {"none", "done"}

\* POST /api/run arrives with n selected components: the two early returns
run(r, n) ==
  /\ request[r].pc = "none"
  /\ request' = [request EXCEPT ![r] =
       IF process_status.running
       THEN [pc |-> "returned", components |-> n, res |-> "A process is already running"]
       ELSE IF n = 0
       THEN [pc |-> "returned", components |-> n, res |-> "No components selected"]
       ELSE [pc |-> "reset", components |-> n, res |-> "none"]]
  /\ UNCHANGED <<store, jobs, cachev, process_status, thread>>

\* run: reset_status()
run_reset_status(r) ==
  /\ request[r].pc = "reset"
  /\ process_status' = FreshStatus
  /\ request' = [request EXCEPT ![r].pc = "start"]
  /\ UNCHANGED <<store, jobs, cachev, thread>>

\* run: thread.start(); return "Process started"
run_thread_start(r) ==
  /\ request[r].pc = "start"
  /\ thread' = [thread EXCEPT ![r] =
       [NoThread EXCEPT !.pc = "start", !.components = request[r].components]]
  /\ request' = [request EXCEPT ![r].pc = "returned", ![r].res = "Process started"]
  /\ UNCHANGED <<store, jobs, cachev, process_status>>

\* run_process: process_status["running"] = True
run_process_start(t) ==
  /\ thread[t].pc = "start"
  /\ process_status' = [process_status EXCEPT !.running = TRUE]
  /\ thread' = [thread EXCEPT ![t].pc = "begin"]
  /\ UNCHANGED <<store, jobs, cachev, request>>

\* run_process: update_status(step="Starting process", progress=5, log=...)
run_process_begin(t) ==
  /\ thread[t].pc = "begin"
  /\ process_status' = update_status(process_status, "Starting process", 5, "None", FALSE)
  /\ thread' = [thread EXCEPT ![t].pc = "popen"]
  /\ UNCHANGED <<store, jobs, cachev, request>>

\* run_process: subprocess.Popen(...) starts the pipeline or raises
run_process_popen(t, ok) ==
  /\ thread[t].pc = "popen"
  /\ thread' = [thread EXCEPT ![t].pc = IF ok THEN "stdout" ELSE "except"]
  /\ UNCHANGED <<store, jobs, cachev, request, process_status>>

\* run_process: one line of the subprocess's stdout; update_status(log=line),
\* then the update the line's kind calls for
run_process_line(t, kind, percent) ==
  LET th == thread[t]
      logged == update_status(process_status, "None", -1, "None", FALSE)
      n == th.components
  IN /\ th.pc = "stdout"
     /\ th.lines < MaxLines
     /\ \/ /\ kind = "Starting:"
           /\ IF th.current_step < n
              THEN /\ thread' = [thread EXCEPT ![t].lines = @ + 1,
                                               ![t].current_step = @ + 1]
                   /\ process_status' =
                        update_status(logged, "Running",
                                      Progress(n, th.current_step + 1, 0), "None", FALSE)
              ELSE /\ thread' = [thread EXCEPT ![t].lines = @ + 1]
                   /\ process_status' = logged
        \/ /\ kind = "Successfully completed:"
           /\ IF th.completed < n
              THEN /\ thread' = [thread EXCEPT ![t].lines = @ + 1,
                                               ![t].completed = @ + 1]
                   /\ process_status' =
                        update_status(logged, "Completed",
                                      Progress(n, th.current_step, 100), "None", FALSE)
              ELSE /\ thread' = [thread EXCEPT ![t].lines = @ + 1]
                   /\ process_status' = logged
        \/ /\ kind = "%"
           /\ thread' = [thread EXCEPT ![t].lines = @ + 1]
           /\ process_status' =
                IF th.current_step > 0 /\ th.current_step <= n
                THEN update_status(logged, "None",
                                   Progress(n, th.current_step, percent), "None", FALSE)
                ELSE logged
     /\ UNCHANGED <<store, jobs, cachev, request>>

\* run_process: stdout is at its end
run_process_stdout_end(t) ==
  /\ thread[t].pc = "stdout"
  /\ thread' = [thread EXCEPT ![t].pc = "stderr"]
  /\ UNCHANGED <<store, jobs, cachev, request, process_status>>

\* run_process: the stderr loop; update_status(error=line) for what it reads
run_process_stderr(t, text) ==
  /\ thread[t].pc = "stderr"
  /\ thread' = [thread EXCEPT ![t].pc = "wait", ![t].stderr = text]
  /\ process_status' =
       IF text = "none" THEN process_status
       ELSE update_status(process_status, "None", -1, text, FALSE)
  /\ UNCHANGED <<store, jobs, cachev, request>>

\* run_process: process.wait(timeout=300); on TimeoutExpired
\* update_status(error=...), process.kill(), process.wait()
run_process_wait(t, outcome) ==
  /\ thread[t].pc = "wait"
  /\ thread' = [thread EXCEPT ![t].pc = "returncode",
                              ![t].returncode = IF outcome = "exit 0" THEN "zero"
                                                ELSE "nonzero"]
  /\ process_status' =
       IF outcome = "timeout"
       THEN update_status(process_status, "None", -1, "Process timed out", FALSE)
       ELSE process_status
  /\ UNCHANGED <<store, jobs, cachev, request>>

\* run_process: if process.returncode != 0: ... else: ...
run_process_returncode(t) ==
  LET th == thread[t]
      path == IF th.returncode = "zero" THEN "success"
              ELSE IF th.stderr = "rate_limit created basic summary" THEN "fallback"
              ELSE "failed"
  IN /\ th.pc = "returncode"
     /\ thread' = [thread EXCEPT ![t].pc = "finally", ![t].path = path]
     /\ process_status' =
          CASE path = "success" ->
                 update_status(process_status, "Process completed", 100, "None", TRUE)
            [] path = "fallback" ->
                 update_status(process_status, "Process completed with fallback",
                               100, "None", TRUE)
            [] OTHER ->
                 update_status(process_status, "None", -1, "Process exited", TRUE)
     /\ UNCHANGED <<store, jobs, cachev, request>>

\* run_process: except Exception: update_status(error=..., completed=True)
run_process_except(t) ==
  /\ thread[t].pc = "except"
  /\ thread' = [thread EXCEPT ![t].pc = "finally", ![t].path = "exception"]
  /\ process_status' =
       update_status(process_status, "None", -1, "Error running process", TRUE)
  /\ UNCHANGED <<store, jobs, cachev, request>>

\* run_process: finally: process_status["running"] = False
run_process_finally(t) ==
  /\ thread[t].pc = "finally"
  /\ thread' = [thread EXCEPT ![t].pc = "done"]
  /\ process_status' = [process_status EXCEPT !.running = FALSE]
  /\ UNCHANGED <<store, jobs, cachev, request>>

NextWebUI ==
  \E r \in Reqs :
    \/ \E n \in 0..MaxComponents : run(r, n)
    \/ run_reset_status(r)
    \/ run_thread_start(r)
    \/ run_process_start(r)
    \/ run_process_begin(r)
    \/ \E ok \in BOOLEAN : run_process_popen(r, ok)
    \/ \E kind \in {"Starting:", "Successfully completed:"} :
         run_process_line(r, kind, 0)
    \/ \E percent \in Percents : run_process_line(r, "%", percent)
    \/ run_process_stdout_end(r)
    \/ \E text \in {"none", "other", "rate_limit created basic summary"} :
         run_process_stderr(r, text)
    \/ \E outcome \in {"exit 0", "exit 1", "timeout"} : run_process_wait(r, outcome)
    \/ run_process_returncode(r)
    \/ run_process_except(r)
    \/ run_process_finally(r)

SpecWebUI == Init /\ [][NextWebUI]_vars

\* -------------------------------------------------------- the cache
\* self.ttl, and the ttl arguments of set (0 stands for None)
DefaultTtl == 1

Ttls == {0, 2}

\* the number the callers cache (entries differ by key and expiry)
Values == {1}

MaxClock == 1

\* the interpreters that run one after the other on the same ./cache
MaxRestarts == 1

\* _get_cache_path: cache_dir / f"{hash(key) % 10000000}.json"
\*   (the model keeps HashMod file names)
_get_cache_path(key) == hash_seed[key]

Call(op, key, value) ==
  called' = [op |-> op, key |-> key, value |-> value,
             turn |-> 1 - called.turn, run |-> called.run]

\* time passes
CacheTick ==
  /\ clock < MaxClock
  /\ clock' = clock + 1
  /\ UNCHANGED <<store, jobs, webui, enabled, hash_seed, memory_cache,
                 cache_dir, recent, called>>

\* Cache.get
get(key) ==
  LET inMemory == memory_cache[key] # NoEntry
      hit == inMemory /\ memory_cache[key].expires > clock
      memory == IF inMemory /\ ~hit
                THEN [memory_cache EXCEPT ![key] = NoEntry] ELSE memory_cache
      cache_path == _get_cache_path(key)
      entry == cache_dir[cache_path]
  IN /\ IF ~enabled
        THEN /\ Call("get", key, NoEntry)
             /\ UNCHANGED <<memory_cache, cache_dir>>
        ELSE IF hit
        THEN /\ Call("get", key, memory_cache[key])
             /\ UNCHANGED <<memory_cache, cache_dir>>
        ELSE IF entry # NoEntry /\ entry.expires > clock
        THEN /\ memory_cache' = [memory EXCEPT ![key] = entry]
             /\ Call("get", key, entry)
             /\ UNCHANGED cache_dir
        ELSE /\ memory_cache' = memory
             /\ cache_dir' = [cache_dir EXCEPT ![cache_path] = NoEntry]
             /\ Call("get", key, NoEntry)
     /\ UNCHANGED <<store, jobs, webui, enabled, hash_seed, clock, recent>>

\* Cache.set; written tells whether the file could be written
set(key, value, ttl, written) ==
  LET expires == clock + (IF ttl # 0 THEN ttl ELSE DefaultTtl)
      entry == [key |-> key, n |-> value, expires |-> expires]
      cache_path == _get_cache_path(key)
  IN /\ IF ~enabled
        THEN UNCHANGED <<memory_cache, cache_dir, recent>>
        ELSE /\ memory_cache' = [memory_cache EXCEPT ![key] = entry]
             /\ cache_dir' = IF written
                             THEN [cache_dir EXCEPT ![cache_path] = entry]
                             ELSE cache_dir
             /\ recent' = [recent EXCEPT ![key] = entry]
     /\ Call("set", key, NoEntry)
     /\ UNCHANGED <<store, jobs, webui, enabled, hash_seed, clock>>

\* Cache.delete
delete(key) ==
  /\ IF ~enabled
     THEN UNCHANGED <<memory_cache, cache_dir, recent>>
     ELSE /\ memory_cache' = [memory_cache EXCEPT ![key] = NoEntry]
          /\ cache_dir' = [cache_dir EXCEPT ![_get_cache_path(key)] = NoEntry]
          /\ recent' = [recent EXCEPT ![key] = NoEntry]
  /\ Call("delete", key, NoEntry)
  /\ UNCHANGED <<store, jobs, webui, enabled, hash_seed, clock>>

\* Cache.clear
clear ==
  /\ IF ~enabled
     THEN UNCHANGED <<memory_cache, cache_dir, recent>>
     ELSE /\ memory_cache' = [k \in Keys |-> NoEntry]
          /\ cache_dir' = [h \in Buckets |-> NoEntry]
          /\ recent' = [k \in Keys |-> NoEntry]
  /\ Call("clear", "none", NoEntry)
  /\ UNCHANGED <<store, jobs, webui, enabled, hash_seed, clock>>

\* Cache.cleanup
cleanup ==
  /\ IF ~enabled
     THEN UNCHANGED <<memory_cache, cache_dir>>
     ELSE /\ memory_cache' = [k \in Keys |->
                                IF memory_cache[k].expires <= clock
                                THEN NoEntry ELSE memory_cache[k]]
          /\ cache_dir' = [h \in Buckets |->
                             IF cache_dir[h].expires <= clock
                             THEN NoEntry ELSE cache_dir[h]]
  /\ Call("cleanup", "none", NoEntry)
  /\ UNCHANGED <<store, jobs, webui, enabled, hash_seed, clock, recent>>

\* the interpreter exits and a new one imports the module: cache = Cache()
\* with an empty memory_cache and another hash seed; ./cache stays
Cache_init(seed) ==
  /\ called.op # "none"
  /\ called.run < MaxRestarts
  /\ hash_seed' = seed
  /\ memory_cache' = [k \in Keys |-> NoEntry]
  /\ called' = [NoCacheCall EXCEPT !.turn = 1 - called.turn, !.run = called.run + 1]
  /\ UNCHANGED <<store, jobs, webui, enabled, cache_dir, clock, recent>>

\* a Cache over an empty ./cache, enabled or not by the configuration
InitCached ==
  /\ InitStore
  /\ file[MainFile] = Absent
  /\ InitJobs
  /\ InitWebUI
  /\ enabled \in BOOLEAN
  /\ hash_seed \in [Keys -> Buckets]
  /\ cache_dir = [h \in Buckets |-> NoEntry]
  /\ InitMemory

NextCache ==
  \/ CacheTick
  \/ \E key \in Keys : get(key)
  \/ \E key \in Keys, value \in Values, ttl \in Ttls, written \in BOOLEAN :
       set(key, value, ttl, written)
  \/ \E key \in Keys : delete(key)
  \/ clear
  \/ cleanup
  \/ \E seed \in [Keys -> Buckets] : Cache_init(seed)

SpecCache == InitCached /\ [][NextCache]_vars

\* ---------------------------------------------------------------- claims
IsMutation(p) == proc[p].op \in {"write", "append"}

\* between acquiring the lock and releasing it: backup, temp file, rename
InSection(p) ==
  proc[p].pc \in {"b_exists", "b_copy", "b_glob", "b_unlink", "t_create",
                  "t_write", "t_move", "w_close"}

\* no other caller has used the store
Alone(p) == \A q \in Procs \ {p} : proc[q].calls = 0

\* C1 (atomicity): at every instant the target holds, whole, a content that
\* was there at the start or that some atomic_write was given, and a
\* read_with_lock that reads the file returns such a content.
C1_Atomicity ==
  /\ \A f \in Files : file[f] # Absent => file[f] \in submitted[f]
  /\ \A p \in Procs :
       proc[p].how = "read" => proc[p].ret \in submitted[proc[p].fn]

\* a read that began on the old content returns the new one while the write
\* that renamed it is still in progress
C1_Witness ==
  \E p, q \in Procs :
    /\ Returned(p) /\ proc[p].how = "read"
    /\ proc[p].pre = OldContent /\ proc[p].ret = Payload[q]
    /\ proc[q].op = "write" /\ proc[q].pc \in {"w_close", "f_exists", "f_unlink"}

\* C2 (mutual exclusion per filename): as long as no writer has given up on
\* the lock (and no I/O fault has occurred), two writers of one filename are
\* never both between lock acquisition and lock release.
C2_MutualExclusion ==
  (~warned /\ faults = 0) =>
    \A p, q \in Procs :
      (p # q /\ InSection(p) /\ InSection(q)) => proc[p].fn # proc[q].fn

C4_FailureRaised ==
  \A p \in Procs :
    (Returned(p) /\ IsMutation(p) /\ ~proc[p].committed) =>
      proc[p].res = "err" /\ proc[p].cause # "none"

\* the backup copy failed and the call raised
C4_Witness ==
  \E p \in Procs :
    Returned(p) /\ proc[p].cause = "b_copy" /\ proc[p].res = "err"

Acquiring(p) == proc[p].pc \in {"w_lock", "w_sleep", "w_retry"}

\* C5 (lock bound): whatever the other caller does, also when it holds the
\* lock and never moves again, a call of p1 makes at most 1 + 5 lock attempts
\* and returns.
C5_LockBound ==
  /\ [](\A p \in Procs : proc[p].tries <= MaxRetries + 1)
  /\ (proc["p1"].pc # "idle") ~> (proc["p1"].pc = "idle")

\* p1 has used up its retries and goes on without the lock that p2 holds
C5_Witness ==
  /\ proc["p1"].pc = "b_exists" /\ ~proc["p1"].has
  /\ proc["p1"].tries = MaxRetries + 1
  /\ proc["p2"].has /\ proc["p2"].fd = proc["p1"].fd

\* caller p returns in this step
Returns(p) == proc[p].pc # "idle" /\ proc'[p].pc = "idle"

\* C6 (sequential append): an atomic_append that ran while no other call did
\* and returns normally leaves the target equal to what read_with_lock gave
\* at the call (empty for an absent file) followed by the appended content.
C6_SequentialAppend ==
  [][\A p \in Procs :
       (Returns(p) /\ proc'[p].op = "append" /\ proc'[p].res = "ok"
          /\ ~proc'[p].overlap) =>
         file'[proc[p].fn] = Text(proc[p].pre) \o proc[p].appended]_vars

\* append(f, b) after write(f, a), one after the other: f holds a + b
C6_Witness ==
  \E p, q \in Procs :
    /\ p # q /\ Returned(p) /\ Returned(q)
    /\ ~proc[p].overlap /\ ~proc[q].overlap
    /\ proc[q].op = "write" /\ proc[q].res = "ok"
    /\ proc[p].op = "append" /\ proc[p].res = "ok"
    /\ proc[p].pre = Payload[q]
    /\ file[MainFile] = Payload[q] \o Payload[p]

\* C7 (lost update): two appends that both read the same existing content
\* and both return normally leave the target with that content plus the
\* appended content of one of them only.
C7_LostUpdate ==
  \A p, q \in Procs :
    (/\ p # q /\ Returned(p) /\ Returned(q)
     /\ proc[p].op = "append" /\ proc[q].op = "append"
     /\ proc[p].fn = proc[q].fn
     /\ proc[p].res = "ok" /\ proc[q].res = "ok"
     /\ proc[p].existing = proc[q].existing) =>
      file[proc[p].fn] \in {proc[p].existing \o proc[p].appended,
                            proc[q].existing \o proc[q].appended}

\* both appends succeeded, each got the lock at its first attempt, no fault
\* occurred, and the content appended by p is gone
C7_Witness ==
  \E p, q \in Procs :
    /\ p # q /\ Returned(p) /\ Returned(q)
    /\ proc[p].op = "append" /\ proc[q].op = "append"
    /\ proc[p].res = "ok" /\ proc[q].res = "ok"
    /\ ~warned /\ faults = 0
    /\ file[MainFile] = OldContent \o Payload[q]

\* C8 (read of an absent file): no step of read_with_lock changes a file, a
\* lock file or a backup, and a read that returns while the file is absent
\* returns the empty string without raising.
C8_ReadAbsent ==
  [][\A p \in Procs :
       (proc[p].pc \in {"r_exists", "r_read"} /\ proc'[p] # proc[p]) =>
         /\ UNCHANGED <<file, lockPath, bk>>
         /\ proc'[p].tmp = Absent
         /\ (Returns(p) /\ file[proc[p].fn] = Absent) =>
              (proc'[p].ret = <<>> /\ proc'[p].res = "ok")]_vars

\* a read of a never written file has returned "" and the store is empty
C8_Witness ==
  \E p \in Procs :
    /\ Returned(p) /\ proc[p].op = "read" /\ proc[p].how = "absent"
    /\ proc[p].ret = <<>> /\ proc[p].res = "ok"
    /\ Alone(p) /\ file[MainFile] = Absent /\ submitted[MainFile] = {}
    /\ DOMAIN bk = {} /\ lockPath[MainFile] = NoIno

C10_BackupRetention ==
  (faults = 0 /\ \A p \in Procs : ~Busy(p)) =>
    \A f \in Files : Cardinality(OwnBackups(f)) <= KeepBackups

\* C11 (fifteen writes): after 15 atomic_write calls made one after the
\* other, without a fault, on a filename that was absent at first, exactly
\* 10 backup snapshots of it remain.
C11_FifteenWrites ==
  (/\ Returned("p1") /\ proc["p1"].calls = SeqCalls /\ faults = 0
   /\ OldContent \notin submitted[MainFile]) =>
    Cardinality(OwnBackups(MainFile)) = KeepBackups

\* C12 (idempotent write): a second atomic_write(f, X) by a caller working
\* alone, made when f holds X, leaves f holding X at every instant, takes a
\* snapshot whose content is X, and on success the backup history of f has a
\* snapshot of X.
C12_IdempotentWrite ==
  \A p \in Procs :
    (/\ proc[p].op = "write" /\ proc[p].calls >= 2 /\ Alone(p)
     /\ proc[p].pre = proc[p].content) =>
      /\ file[proc[p].fn] = proc[p].content
      /\ proc[p].bkp # Absent =>
           (proc[p].bkp \in DOMAIN bk /\ bk[proc[p].bkp] = proc[p].content)
      /\ (Returned(p) /\ proc[p].res = "ok") =>
           \E n \in OwnBackups(proc[p].fn) : bk[n] = proc[p].content

\* write(f, X); write(f, X) on a fresh content root: f holds X and the only
\* snapshot there is holds X
C12_Witness ==
  /\ Returned("p1") /\ proc["p1"].calls = 2 /\ proc["p1"].res = "ok"
  /\ faults = 0 /\ OldContent \notin submitted[MainFile]
  /\ proc["p1"].pre = Payload["p1"] /\ file[MainFile] = Payload["p1"]
  /\ Cardinality(DOMAIN bk) = 1
  /\ \A n \in DOMAIN bk : n[1] = MainFile /\ bk[n] = Payload["p1"]

\* C13 (per-file state machine): a write or append that was called on an
\* absent file and failed has not put a content onto it, and a file that was
\* absent at first and is present now was put there by a call that has not
\* failed.
C13_FileStateMachine ==
  /\ \A p \in Procs :
       (Returned(p) /\ IsMutation(p) /\ proc[p].res = "err"
          /\ proc[p].pre = Absent) => ~proc[p].committed
  /\ \A f \in Files :
       (file[f] # Absent /\ OldContent \notin submitted[f]) =>
         \E p \in Procs :
           proc[p].fn = f /\ proc[p].committed /\ proc[p].res # "err"

\* from the open of the lock file to the end of the finally block
InWrite(p) ==
  proc[p].pc \in {"w_lock", "w_sleep", "w_retry", "b_exists", "b_copy",
                  "b_glob", "b_unlink", "t_create", "t_write", "t_move",
                  "w_close", "x_except", "f_exists", "f_unlink"}

\* C14 (lock lifetime): a lock file exists only while some write to its
\* filename is in progress; a caller has the lock file open, or holds the
\* lock, only between its open and the end of its with block; and a call
\* that has returned has left neither a lock nor the lock file it created.
C14_LockLifetime ==
  /\ \A f \in Files :
       lockPath[f] # NoIno => \E p \in Procs : InWrite(p) /\ proc[p].fn = f
  /\ \A p \in Procs :
       (proc[p].has \/ proc[p].fd # NoIno) =>
         (Acquiring(p) \/ InSection(p) \/ proc[p].pc = "x_except")
  /\ \A p \in Procs :
       (Returned(p) /\ IsMutation(p)) =>
         /\ ~proc[p].has /\ proc[p].fd = NoIno
         /\ lockPath[proc[p].fn] # <<p, proc[p].calls>>

\* a writer that gave up on the lock and one that held it have both
\* returned, one of them having failed, and no lock file is left
C14_Witness ==
  /\ \A p \in {"p1", "p2"} : Returned(p) /\ proc[p].op = "write"
  /\ warned /\ faults = 1
  /\ \E p \in Procs : proc[p].res = "err"
  /\ \E p \in Procs : proc[p].res = "ok"
  /\ lockPath[MainFile] = NoIno

\* C15 (read after write): a read_with_lock(f) that begins after
\* atomic_write(f, X) has returned successfully, with no other call in
\* progress meanwhile, and that reads the file, returns exactly X.
C15_ReadAfterWrite ==
  [][\A q \in Procs :
       (/\ Returns(q) /\ proc'[q].op = "read" /\ proc'[q].how = "read"
        /\ ~proc'[q].overlap) =>
         \A p \in Procs \ {q} :
           (/\ Returned(p) /\ proc[p].op = "write" /\ proc[p].res = "ok"
            /\ proc[p].fn = proc[q].fn) =>
             proc'[q].ret = proc[p].content]_vars

\* the write of X over the old content has returned, then a read returned X
C15_Witness ==
  \E p, q \in Procs :
    /\ p # q /\ Returned(p) /\ Returned(q)
    /\ ~proc[p].overlap /\ ~proc[q].overlap
    /\ proc[p].op = "write" /\ proc[p].res = "ok" /\ proc[p].pre = OldContent
    /\ proc[q].op = "read" /\ proc[q].how = "read"
    /\ proc[q].ret = Payload[p]

\* C16 (managed files change only through the store): every step that changes
\* the content of a managed file is the rename of an atomic_write on it.
C16_OnlyStoreMutates ==
  [][\A f \in Files :
       file'[f] # file[f] =>
         \E p \in Procs :
           /\ proc[p].pc = "t_move" /\ proc'[p].pc = "w_close"
           /\ proc[p].fn = f /\ file'[f] = proc[p].content]_vars

\* the backup history of file g: its snapshots and their contents
BackupHistory(g) == [n \in OwnBackups(g) |-> bk[n]]

\* C17 (independence of filenames): a step of a call on filename f changes
\* neither the content, nor the lock file, nor the backup history of another
\* filename g; these change only by steps of calls on g itself.
C17_FilenameIndependence ==
  [][\A g \in Files :
       (\/ file'[g] # file[g]
        \/ lockPath'[g] # lockPath[g]
        \/ BackupHistory(g)' # BackupHistory(g)) =>
         \E p \in Procs : proc[p].fn = g /\ proc'[p] # proc[p]]_vars

\* C18 (append failure): an atomic_append that failed has not changed the
\* content of the file, and it failed in its atomic_write, not before it.
C18_AppendFailure ==
  \A p \in Procs :
    (Returned(p) /\ proc[p].op = "append" /\ proc[p].res = "err") =>
      /\ ~proc[p].committed
      /\ proc[p].cause # "a_read"

\* C19 (step order of one atomic_write): at the rename the caller has the
\* lock file open and either holds the lock or some caller has given up on
\* it, the temporary file holds the whole
\* content, the lock is released only afterwards, and if the target exists
\* the call has taken a snapshot that holds the content the target has
\* immediately before the rename.
C19_StepOrder ==
  [][\A p \in Procs :
       (proc[p].pc = "t_move" /\ proc'[p].pc = "w_close") =>
         /\ proc[p].fd # NoIno /\ proc'[p].fd = proc[p].fd
         /\ proc[p].has \/ warned
         /\ proc'[p].has = proc[p].has
         /\ proc[p].tmp = proc[p].content
         /\ file[proc[p].fn] # Absent =>
              /\ proc[p].bkp \in DOMAIN bk
              /\ bk[proc[p].bkp] = file[proc[p].fn]]_vars

\* the delays 100, 200, 400, ... ms that follow the first k failed attempts
\* add up to 100 * (2^k - 1) ms
DoublingSum(k) == BaseDelayMs * (2 ^ k - 1)

\* while a call is acquiring the lock: attempts made so far and time slept
\* so far agree with a doubling sequence of delays that starts at 100 ms
DoublingDelays(p) ==
  /\ proc[p].pc = "w_sleep" =>
       (proc[p].tries = proc[p].attempt + 1
          /\ proc[p].waited = DoublingSum(proc[p].attempt))
  /\ proc[p].pc = "w_retry" =>
       (proc[p].tries = proc[p].attempt + 1
          /\ proc[p].waited = DoublingSum(proc[p].attempt + 1))

GaveUp(p) ==
  proc[p].pc = "b_exists" /\ ~proc[p].has /\ proc[p].tries = MaxRetries + 1

StuckHolder(q) == proc[q].has /\ proc[q].pc = "b_exists"

\* C22 (degraded write commits): a write that gave up on the lock held by a
\* stuck writer and has returned, no I/O fault having occurred, returned
\* without error, renamed its content onto the target, which holds it now,
\* and took a snapshot of the content it replaced.
C22_DegradedWriteCommits ==
  \A p, q \in Procs :
    (/\ p # q /\ StuckHolder(q) /\ warned /\ faults = 0
     /\ Returned(p) /\ proc[p].op = "write") =>
      /\ proc[p].res = "ok" /\ proc[p].committed
      /\ Text(file[proc[p].fn]) = proc[p].content
      /\ \E n \in OwnBackups(proc[p].fn) : n[2] = now /\ bk[n] = proc[p].pre

\* p1 has written without the lock and returned; p2 is still stuck with it
C22_Witness ==
  /\ StuckHolder("p2") /\ warned /\ faults = 0
  /\ Returned("p1") /\ proc["p1"].res = "ok"
  /\ file[MainFile] = Payload["p1"]
  /\ lockPath[MainFile] = NoIno

\* C23 (suspension points): on one event loop at most one coroutine is
\* inside a store operation that got the lock at its first attempt, no
\* coroutine ever sleeps, and two appends that both returned normally have
\* both their contents in the file, in the order of the calls.
C23_LoopAppends ==
  /\ \A p, q \in Procs : (p # q /\ ~Suspended(p)) => Suspended(q)
  /\ \A p \in Procs : ~Acquiring(p) \/ proc[p].pc = "w_lock"
  /\ \A p, q \in Procs :
       (/\ p # q /\ Returned(p) /\ Returned(q)
        /\ proc[p].op = "append" /\ proc[q].op = "append"
        /\ proc[p].res = "ok" /\ proc[q].res = "ok") =>
         file[MainFile] \in
           {Text(proc[p].pre) \o proc[p].appended \o proc[q].appended,
            Text(proc[q].pre) \o proc[q].appended \o proc[p].appended}

\* two coroutines have appended to the old content, nothing is lost
C23_Witness ==
  /\ Returned("p1") /\ Returned("p2")
  /\ proc["p1"].op = "append" /\ proc["p2"].op = "append"
  /\ proc["p1"].res = "ok" /\ proc["p2"].res = "ok"
  /\ file[MainFile] = OldContent \o Payload["p2"] \o Payload["p1"]

\* C24 (a held lock stays effective): while a writer holds the lock of a
\* filename no other writer acquires the lock of that filename.
C24_LockStaysEffective ==
  \A p, q \in Procs :
    (p # q /\ proc[p].has /\ proc[q].has) => proc[p].fn # proc[q].fn

Terminal(st) == st \in {"completed", "failed"}

\* C25 (job status is one-way): a job enters job_store as pending and stays
\* in it; its status changes only from pending to processing and from
\* processing to completed or failed; a completed or failed job record never
\* changes again.
C25_JobStatusOneWay ==
  [][\A j \in JobIds :
       /\ (j \notin DOMAIN job_store /\ j \in DOMAIN job_store') =>
            job_store'[j] = PendingJob
       /\ j \in DOMAIN job_store =>
            /\ j \in DOMAIN job_store'
            /\ \/ job_store'[j].status = job_store[j].status
               \/ <<job_store[j].status, job_store'[j].status>> \in
                    {<<"pending", "processing">>, <<"processing", "completed">>,
                     <<"processing", "failed">>}
            /\ Terminal(job_store[j].status) =>
                 job_store'[j] = job_store[j]]_vars

\* one job has ended completed and the other failed, both tasks are over
C25_Witness ==
  /\ DOMAIN job_store = JobIds
  /\ job_store["j1"].status = "completed" /\ task["j1"].pc = "done"
  /\ job_store["j2"].status = "failed" /\ task["j2"].pc = "done"

\* C26 (every job ends): a job whose background task has run to its end has
\* status completed or failed, whichever endpoint created it.
C26_EveryJobEnds ==
  \A j \in DOMAIN job_store :
    task[j].pc = "done" => Terminal(job_store[j].status)

\* C27 (job record): completed exactly with progress 100, then with a result
\* and no error; failed with progress 0, an error and no result; pending
\* with progress 0.
C27_JobRecord ==
  \A j \in DOMAIN job_store :
    LET r == job_store[j]
    IN /\ (r.status = "completed") <=> (r.progress = 100)
       /\ r.status = "completed" => (r.result # "None" /\ r.error = "None")
       /\ r.status = "failed" =>
            (r.progress = 0 /\ r.error # "None" /\ r.result = "None")
       /\ r.status = "pending" => r.progress = 0

\* a job failed in its last step (progress fell from 90 to 0) while another
\* one has completed
C27_Witness ==
  /\ DOMAIN job_store = JobIds
  /\ job_store["j1"] = JobRecord("failed", 0, "None", "set")
  /\ task["j1"].kind = "generate" /\ task["j1"].pc = "done"
  /\ job_store["j2"] = JobRecord("completed", 100, "set", "None")

\* C28: at most one run_process thread is active at a time, and a request
\* that arrives while one is active gets no further than the check of
\* process_status["running"]: it neither resets process_status nor starts a
\* thread
C28_SingleRun ==
  /\ Cardinality({r \in Reqs : Active(r)}) <= 1
  /\ \A r \in Reqs :
       request[r].pc \in {"reset", "start"} => \A t \in Reqs : ~Active(t)

\* C29: in the step in which a run_process finishes, process_status has
\* running = False and completed = True, and its progress is 100 only if the
\* run took the success or the fallback path
C29_RunTermination ==
  [][\A t \in Reqs :
       (thread[t].pc = "finally" /\ thread'[t].pc = "done") =>
         /\ ~process_status'.running
         /\ process_status'.completed
         /\ process_status'.progress = 100 =>
              thread[t].path \in {"success", "fallback"}]_vars

\* C30: get(k) returns None or the entry most recently set for k, which has
\* neither expired nor been deleted, never one set under another key; and
\* delete(k) leaves the files of the other keys' entries in place
C30_KeyIsolation ==
  [][/\ (called' # called /\ called'.op = "get" /\ called'.value # NoEntry) =>
          /\ called'.value.key = called'.key
          /\ called'.value = recent[called'.key]
          /\ called'.value.expires > clock
     /\ (called' # called /\ called'.op = "delete") =>
          \A h \in Buckets :
            cache_dir[h].key \notin {"none", called'.key} =>
              cache_dir'[h] = cache_dir[h]]_vars

====
